---- MODULE Spec2Model ----
(***************************************************************************)
(* HD108 smart LED strip low level driver (HD108_lld.c / HD108_lld.h).     *)
(*                                                                         *)
(* The model has three parts:                                              *)
(*   - the configuration checks and the initialization sequence of         *)
(*     hd108_lld_init, with the ESP-IDF calls it makes (heap, SPI master,  *)
(*     esp_timer) as an environment that chooses their results;            *)
(*   - hd108_lld_set_pixel with the pixel codec hd108_lld_copy_pixel, on a *)
(*     byte-level frame buffer;                                            *)
(*   - the esp_timer task running hd108_lld_periodic_timer_callback, the   *)
(*     SPI transfer it queues and the application's update callback.       *)
(* Byte k of a C buffer is element k+1 of the sequence that models it.     *)
(***************************************************************************)
EXTENDS Integers, Sequences, FiniteSets, TLC

(***************************************************************************)
(* Program constants                                                       *)
(***************************************************************************)
HD108_LLD_NUM_OF_0S == 16
HD108_LLD_MIN_COUNT == 1
HD108_LLD_MAX_COUNT == 1024
HD108_LLD_MAX_SPI_SPEED == 40000000
PixelSize == 8
UsPerSecond == 1000000

\* uint16_t values are taken modulo U16.  The uint32_t values of the driver
\* are the bus speed, which is only compared, and the data rate, which is at
\* most 65535 * 8 * 120 * 2 < 2^27 and so never wraps.
U16 == 65536

\* hd108_update_frequency_hz_t
Frequencies == {1, 2, 5, 10, 20, 24, 25, 30, 50, 60, 100, 120}

(***************************************************************************)
(* Bounds of the model                                                     *)
(***************************************************************************)
\* longest strip whose frame buffer is modelled byte by byte
MaxStrip == 2
\* expiries of the periodic timer in one behaviour
MaxExpiries == 3
\* calls of hd108_lld_init in one behaviour
MaxInits == 2

(***************************************************************************)
(* Pixel codec                                                             *)
(***************************************************************************)
\* hd108_pixel_t: three 5 bit current levels, the reserved bit and three
\* 16 bit colours.  The bit-fields are allocated from the least significant
\* bit of the first 16 bit unit (little endian ESP32 ABI).
PixelWord0(p) ==
    p.cl_blue + 32 * p.cl_green + 1024 * p.cl_red + 32768 * p.rsvd

\* the object representation of a hd108_pixel_t: four little endian uint16_t
PixelRaw(p) ==
    << PixelWord0(p) % 256, PixelWord0(p) \div 256,
       p.red % 256,   p.red \div 256,
       p.green % 256, p.green \div 256,
       p.blue % 256,  p.blue \div 256 >>

\* a copy_pixel that forgets to swap the bytes of each word
copy_pixel_noswap(src_raw) == src_raw

\* dst_raw[0] = src_raw[1]; dst_raw[1] = src_raw[0]; ...
hd108_lld_copy_pixel(src_raw) ==
    << src_raw[2], src_raw[1], src_raw[4], src_raw[3],
       src_raw[6], src_raw[5], src_raw[8], src_raw[7] >>

\* a set_pixel that leaves the reserved bit as the caller passed it
SetStartBitNone(p) == p

\* pixel_data->bit_start = 1 on the hd108_pixel_data_t view of the pixel
SetStartBit(p) == [p EXCEPT !.rsvd = 1]

\* a slot offset that leaves out the leading zero bytes
SlotOffsetNoPad(index) == PixelSize * index

\* a slot offset that advances by one byte per index
SlotOffsetByIndex(index) == HD108_LLD_NUM_OF_0S + index

\* dst + HD108_LLD_NUM_OF_0S + sizeof(hd108_pixel_t) * index
SlotOffset(index) == HD108_LLD_NUM_OF_0S + PixelSize * index

\* the buffer after writing the bytes bs at byte offset off
WriteBytes(buf, off, bs) ==
    [k \in 1..Len(buf) |->
        IF k - 1 >= off /\ k - 1 < off + Len(bs) THEN bs[k - off] ELSE buf[k]]

\* memset(buffer, 0, buffer_len)
ZeroBuffer(len) == [k \in 1..len |-> 0]

(***************************************************************************)
(* Configuration checks of hd108_lld_init                                  *)
(***************************************************************************)
\* a buffer length kept in 8 bits
BufferLen8(count) == (HD108_LLD_NUM_OF_0S + count * PixelSize) % 256

\* uint16_t buffer_len = HD108_LLD_NUM_OF_0S + count * sizeof(hd108_pixel_t)
BufferLen(count) == (HD108_LLD_NUM_OF_0S + count * PixelSize) % U16

\* uint32_t rate = buffer_len * 8 * frequency_hz * 2
DataRate(count, freq) == BufferLen(count) * 8 * freq * 2

\* a check of the data rate that compares with >= instead of >
CheckConfigStrict(c) ==
    IF HD108_LLD_MIN_COUNT > c.count \/ HD108_LLD_MAX_COUNT < c.count
    THEN "HD108_LLD_ERROR_LENGTH"
    ELSE IF HD108_LLD_MAX_SPI_SPEED < c.spi_speed_hz
    THEN "HD108_LLD_ERROR_INVALID"
    ELSE IF ~c.update_function
    THEN "HD108_LLD_ERROR_INVALID"
    ELSE IF DataRate(c.count, c.frequency_hz) >= c.spi_speed_hz
    THEN "HD108_LLD_ERROR_DATA_RATE"
    ELSE "PASS"

\* a length check that lets HD108_LLD_MAX_COUNT + 1 through
CheckConfigLen(c) ==
    IF HD108_LLD_MIN_COUNT > c.count \/ HD108_LLD_MAX_COUNT + 1 < c.count
    THEN "HD108_LLD_ERROR_LENGTH"
    ELSE IF HD108_LLD_MAX_SPI_SPEED < c.spi_speed_hz
    THEN "HD108_LLD_ERROR_INVALID"
    ELSE IF ~c.update_function
    THEN "HD108_LLD_ERROR_INVALID"
    ELSE IF DataRate(c.count, c.frequency_hz) > c.spi_speed_hz
    THEN "HD108_LLD_ERROR_DATA_RATE"
    ELSE "PASS"

\* checks without the check of the callback
CheckConfigNoCallback(c) ==
    IF HD108_LLD_MIN_COUNT > c.count \/ HD108_LLD_MAX_COUNT < c.count
    THEN "HD108_LLD_ERROR_LENGTH"
    ELSE IF HD108_LLD_MAX_SPI_SPEED < c.spi_speed_hz
    THEN "HD108_LLD_ERROR_INVALID"
    ELSE IF DataRate(c.count, c.frequency_hz) > c.spi_speed_hz
    THEN "HD108_LLD_ERROR_DATA_RATE"
    ELSE "PASS"

\* checks that look at the callback before the length and the speed
CheckConfigReordered(c) ==
    IF ~c.update_function
    THEN "HD108_LLD_ERROR_INVALID"
    ELSE IF HD108_LLD_MIN_COUNT > c.count \/ HD108_LLD_MAX_COUNT < c.count
    THEN "HD108_LLD_ERROR_LENGTH"
    ELSE IF HD108_LLD_MAX_SPI_SPEED < c.spi_speed_hz
    THEN "HD108_LLD_ERROR_INVALID"
    ELSE IF DataRate(c.count, c.frequency_hz) > c.spi_speed_hz
    THEN "HD108_LLD_ERROR_DATA_RATE"
    ELSE "PASS"

\* the four checks in the order of the code; "PASS" when none returns
CheckConfig(c) ==
    IF HD108_LLD_MIN_COUNT > c.count \/ HD108_LLD_MAX_COUNT < c.count
    THEN "HD108_LLD_ERROR_LENGTH"
    ELSE IF HD108_LLD_MAX_SPI_SPEED < c.spi_speed_hz
    THEN "HD108_LLD_ERROR_INVALID"
    ELSE IF ~c.update_function
    THEN "HD108_LLD_ERROR_INVALID"
    ELSE IF DataRate(c.count, c.frequency_hz) > c.spi_speed_hz
    THEN "HD108_LLD_ERROR_DATA_RATE"
    ELSE "PASS"

(***************************************************************************)
(* Inputs                                                                  *)
(***************************************************************************)
\* spi_host_device_t values the configuration may select
Hosts == {"SPI2_HOST", "SPI3_HOST"}

\* esp_err_t values the ESP-IDF calls of the driver can return
EspErr == {"ESP_OK", "ESP_ERR_NO_MEM", "ESP_ERR_INVALID_ARG",
           "ESP_ERR_INVALID_STATE", "ESP_ERR_NOT_FOUND", "ESP_FAIL"}

\* strip lengths tried by the state machine: the modelled strips and the
\* values around and beyond the limits of uint16_t count
CountInputs == (0..MaxStrip) \cup {HD108_LLD_MAX_COUNT + 1, U16 - 1}

\* bus speeds tried by the state machine (uint32_t spi_speed_hz)
SpeedInputs == {400, HD108_LLD_MAX_SPI_SPEED, HD108_LLD_MAX_SPI_SPEED + 1}

FreqInputs == {1}

ConfigInputs ==
    [spi_host : Hosts, spi_speed_hz : SpeedInputs, count : CountInputs,
     frequency_hz : FreqInputs, update_function : BOOLEAN]

\* the configurations of the exhaustive check of the configuration checks:
\* every length of uint16_t interest, every frequency, speeds around the
\* required rate, around the 40 MHz limit and a speed far above it
CountInputsAll == (0..(HD108_LLD_MAX_COUNT + 1)) \cup {U16 - 1}

SpeedsAround(count, freq) ==
    LET r == (HD108_LLD_NUM_OF_0S + count * PixelSize) * 8 * freq * 2
    IN  {0, HD108_LLD_MAX_SPI_SPEED, HD108_LLD_MAX_SPI_SPEED + 1, 2147483647}
        \cup {x \in {r - 1, r, r + 1} : x >= 0}

NoConfig ==
    [spi_host |-> "SPI2_HOST", spi_speed_hz |-> 0, count |-> 0,
     frequency_hz |-> 1, update_function |-> FALSE]

\* pixel descriptors the application writes; rsvd is the reserved bit the
\* caller leaves in the descriptor
PixelInputs ==
    { [cl_blue |-> 15, cl_green |-> 7, cl_red |-> 3, rsvd |-> 0,
       red |-> 4660, green |-> 22136, blue |-> 39612],
      [cl_blue |-> 31, cl_green |-> 31, cl_red |-> 31, rsvd |-> 1,
       red |-> 65535, green |-> 65535, blue |-> 65535] }

CurrentInputsAll == {0, 3, 7, 15, 31}
ColourInputsAll == {0, 4660, 22136, 39612, 65535}

PixelInputsAll ==
    [cl_blue : CurrentInputsAll, cl_green : CurrentInputsAll,
     cl_red : CurrentInputsAll, rsvd : {0, 1},
     red : ColourInputsAll, green : ColourInputsAll, blue : ColourInputsAll]

NoPixel ==
    [cl_blue |-> 0, cl_green |-> 0, cl_red |-> 0, rsvd |-> 0,
     red |-> 0, green |-> 0, blue |-> 0]

\* uint16_t index values tried by the application
IndexInputs == (0..MaxStrip) \cup {U16 - 1}

(***************************************************************************)
(* State                                                                   *)
(***************************************************************************)
VARIABLES
    cfg,          \* the configuration of the last call of hd108_lld_init
    checked,      \* what its configuration checks decided ("NONE" before)
    initPc,       \* "idle", or "armed": timer started, *ctx_out not yet set
    initStage,    \* the step at which the last call of init returned
    initStatus,   \* the hd108_status_t it returned ("NONE" before)
    inits,        \* number of calls of hd108_lld_init
    ctxOut,       \* the caller's handle *ctx_out: "NULL" or "ctx"
    ctxMem,       \* context block of the last call: "none", "live", "freed"
    ctxFrees,     \* number of free() calls on that block
    bufMem,       \* frame buffer block of the last call
    bufSize,      \* the size given to heap_caps_malloc for it (0: none)
    bufFrees,     \* number of free() calls on that block
    bus,          \* per host: "free", "other" (another user), "driver"
    devAttached,  \* hosts that carry a device attached by the driver
    timerState,   \* "none", "running", "deleted"
    timerPeriod,  \* period in us given to esp_timer_start_periodic (0: none)
    ctx,          \* hd108_ctx_t of the live context
    frameBuffer,  \* the bytes at ctx->transaction.tx_buffer
    timerPc,      \* esp_timer task: "idle", "wait", "callback"
    lag,          \* expiries of the periodic timer not yet dispatched
    expiries,     \* expiries of the periodic timer so far
    handlerRuns,  \* completed executions of the timer callback
    skipped,      \* expiries dropped by the timer
    inFlight,     \* a transaction is queued on the device and being sent
    resultReady,  \* a finished transaction waits in the result queue
    dmaStart,     \* the buffer as it was when the transaction was queued
    lastSent,     \* the bytes of the last frame put on the bus
    cbStartBuf,   \* the buffer when the last update callback started
    cbEndBuf,     \* the buffer when the last update callback returned
    spPc,         \* set_pixel call of the application: "idle", "calling", "returned"
    spIndex,      \* its index argument
    pixel,        \* the caller's descriptor (hd108_pixel_t *pixel)
    spStatus      \* its return value

initVars == <<cfg, checked, initPc, initStage, initStatus, inits, ctxOut,
              ctxMem, ctxFrees, bufMem, bufSize, bufFrees, bus, devAttached,
              timerState, timerPeriod, ctx>>
tickVars == <<timerPc, lag, expiries, handlerRuns, skipped, inFlight,
              resultReady, dmaStart, lastSent, cbStartBuf, cbEndBuf>>
appVars == <<spPc, spIndex, pixel, spStatus>>
vars == <<initVars, frameBuffer, tickVars, appVars>>

NoCtx == [strip_length |-> 0, callback |-> FALSE, tx_length |-> 0,
          device_handle |-> "none"]

\* before the first call of hd108_lld_init; another component of the
\* application may hold SPI3_HOST
Init ==
    /\ cfg = NoConfig
    /\ checked = "NONE"
    /\ initPc = "idle"
    /\ initStage = "none"
    /\ initStatus = "NONE"
    /\ inits = 0
    /\ ctxOut = "NULL"
    /\ ctxMem = "none" /\ ctxFrees = 0
    /\ bufMem = "none" /\ bufSize = 0 /\ bufFrees = 0
    /\ bus \in {[h \in Hosts |-> "free"],
                [h \in Hosts |-> IF h = "SPI3_HOST" THEN "other" ELSE "free"]}
    /\ devAttached = {}
    /\ timerState = "none"
    /\ timerPeriod = 0
    /\ ctx = NoCtx
    /\ frameBuffer = <<>>
    /\ timerPc = "idle"
    /\ lag = 0 /\ expiries = 0 /\ handlerRuns = 0 /\ skipped = 0
    /\ inFlight = FALSE /\ resultReady = FALSE
    /\ dmaStart = <<>> /\ lastSent = <<>>
    /\ cbStartBuf = <<>> /\ cbEndBuf = <<>>
    /\ spPc = "idle" /\ spIndex = 0
    /\ pixel = NoPixel
    /\ spStatus = "NONE"

(***************************************************************************)
(* hd108_lld_init                                                          *)
(***************************************************************************)
\* switch (err) after spi_bus_initialize
BusInitStatus(err) ==
    CASE err = "ESP_ERR_INVALID_ARG"   -> "HD108_LLD_ERROR_INVALID"
      [] err = "ESP_ERR_INVALID_STATE" -> "HD108_LLD_ERROR_SPI_IN_USE"
      [] err = "ESP_ERR_NOT_FOUND"     -> "HD108_LLD_ERROR_NO_DMA"
      [] err = "ESP_ERR_NO_MEM"        -> "HD108_LLD_ERROR_NO_MEMORY"
      [] err = "ESP_OK"                -> "HD108_LLD_OK"
      [] OTHER                         -> "HD108_LLD_ERROR_UNKNOWN"

\* switch (err) after spi_bus_add_device
AddDeviceStatus(err) ==
    CASE err = "ESP_ERR_INVALID_ARG"   -> "HD108_LLD_ERROR_INVALID"
      [] err = "ESP_ERR_NOT_FOUND"     -> "HD108_LLD_ERROR_NO_CS"
      [] err = "ESP_ERR_NO_MEM"        -> "HD108_LLD_ERROR_NO_MEMORY"
      [] err = "ESP_OK"                -> "HD108_LLD_OK"
      [] OTHER                         -> "HD108_LLD_ERROR_UNKNOWN"

\* switch (err) after hd108_lld_start_timer_for_ctx
TimerStatus(err) ==
    CASE err = "ESP_ERR_INVALID_ARG"   -> "HD108_LLD_ERROR_INVALID"
      [] err = "ESP_ERR_INVALID_STATE" -> "HD108_LLD_ERROR_SPI_IN_USE"
      [] err = "ESP_ERR_NO_MEM"        -> "HD108_LLD_ERROR_NO_MEMORY"
      [] err = "ESP_OK"                -> "HD108_LLD_OK"
      [] OTHER                         -> "HD108_LLD_ERROR_UNKNOWN"

\* esp_timer_create, then esp_timer_start_periodic; the timer is deleted
\* when it cannot be started.  eCreate and eStart are what the two calls
\* return.
hd108_lld_start_timer_for_ctx(eCreate, eStart) ==
    IF eCreate # "ESP_OK" THEN [err |-> eCreate, timer |-> "none"]
    ELSE IF eStart # "ESP_OK" THEN [err |-> eStart, timer |-> "deleted"]
    ELSE [err |-> "ESP_OK", timer |-> "running"]

\* a period rounded up to the next microsecond
update_period_time_ceil(freq_hz) == (UsPerSecond + freq_hz - 1) \div freq_hz

\* return 1000000 / freq_hz
hd108_get_update_period_time(freq_hz) == UsPerSecond \div freq_hz

\* The results the environment may give to one call of hd108_lld_init:
\* the two allocations and the four ESP-IDF calls, up to the first one that
\* fails (the later ones are not made).  spi_bus_initialize reports
\* ESP_ERR_INVALID_STATE exactly when the host is in use.
EnvOk == [ctx |-> TRUE, buf |-> TRUE, busErr |-> "ESP_OK", devErr |-> "ESP_OK",
          createErr |-> "ESP_OK", startErr |-> "ESP_OK"]

InitEnv(c) ==
    IF bus[c.spi_host] # "free"
    THEN { [EnvOk EXCEPT !.ctx = FALSE], [EnvOk EXCEPT !.buf = FALSE],
           [EnvOk EXCEPT !.busErr = "ESP_ERR_INVALID_STATE"] }
    ELSE { EnvOk, [EnvOk EXCEPT !.ctx = FALSE], [EnvOk EXCEPT !.buf = FALSE] }
         \cup { [EnvOk EXCEPT !.busErr = x] :
                  x \in EspErr \ {"ESP_OK", "ESP_ERR_INVALID_STATE"} }
         \cup { [EnvOk EXCEPT !.devErr = x] : x \in EspErr \ {"ESP_OK"} }
         \cup { [EnvOk EXCEPT !.createErr = x] :
                  x \in EspErr \ {"ESP_OK", "ESP_ERR_NOT_FOUND"} }
         \cup { [EnvOk EXCEPT !.startErr = x] :
                  x \in {"ESP_ERR_INVALID_ARG", "ESP_ERR_INVALID_STATE"} }

\* an error path after spi_bus_add_device that forgets free(ctx)
InitOutcomeLeak(c, e) ==
    LET tmr == hd108_lld_start_timer_for_ctx(e.createErr, e.startErr)
        base == [stage |-> "config", status |-> CheckConfig(c),
                 ctxMem |-> "none", ctxFrees |-> 0,
                 bufMem |-> "none", bufFrees |-> 0,
                 busTaken |-> FALSE, devTaken |-> FALSE, timer |-> "none",
                 publish |-> FALSE]
        freed == [base EXCEPT !.ctxMem = "freed", !.ctxFrees = 1,
                              !.bufMem = "freed", !.bufFrees = 1]
    IN  IF CheckConfig(c) # "PASS" THEN base
        ELSE IF ~e.ctx THEN
            [base EXCEPT !.stage = "ctx_alloc",
                         !.status = "HD108_LLD_ERROR_NO_MEMORY"]
        ELSE IF ~e.buf THEN
            [base EXCEPT !.stage = "buf_alloc",
                         !.status = "HD108_LLD_ERROR_NO_MEMORY",
                         !.ctxMem = "freed", !.ctxFrees = 1]
        ELSE IF e.busErr # "ESP_OK" THEN
            [freed EXCEPT !.stage = "bus", !.status = BusInitStatus(e.busErr)]
        ELSE IF e.devErr # "ESP_OK" THEN
            [freed EXCEPT !.stage = "device",
                          !.status = AddDeviceStatus(e.devErr),
                          !.ctxMem = "live", !.ctxFrees = 0,
                          !.busTaken = TRUE]
        ELSE IF tmr.err # "ESP_OK" THEN
            [freed EXCEPT !.stage = "timer", !.status = TimerStatus(tmr.err),
                          !.busTaken = TRUE, !.devTaken = TRUE,
                          !.timer = tmr.timer]
        ELSE
            [base EXCEPT !.stage = "done", !.status = "HD108_LLD_OK",
                         !.ctxMem = "live", !.bufMem = "live",
                         !.busTaken = TRUE, !.devTaken = TRUE,
                         !.timer = "running", !.publish = TRUE]

\* What one call of hd108_lld_init does with configuration c when the
\* environment answers e: the step at which it returns, its status, the
\* two heap blocks, what it leaves initialized on the SPI host and the
\* timer.  Every error path after the allocations frees both blocks; none
\* calls spi_bus_remove_device or spi_bus_free.
InitOutcome(c, e) ==
    LET tmr == hd108_lld_start_timer_for_ctx(e.createErr, e.startErr)
        base == [stage |-> "config", status |-> CheckConfig(c),
                 ctxMem |-> "none", ctxFrees |-> 0,
                 bufMem |-> "none", bufFrees |-> 0,
                 busTaken |-> FALSE, devTaken |-> FALSE, timer |-> "none",
                 publish |-> FALSE]
        freed == [base EXCEPT !.ctxMem = "freed", !.ctxFrees = 1,
                              !.bufMem = "freed", !.bufFrees = 1]
    IN  IF CheckConfig(c) # "PASS" THEN base
        ELSE IF ~e.ctx THEN
            [base EXCEPT !.stage = "ctx_alloc",
                         !.status = "HD108_LLD_ERROR_NO_MEMORY"]
        ELSE IF ~e.buf THEN
            [base EXCEPT !.stage = "buf_alloc",
                         !.status = "HD108_LLD_ERROR_NO_MEMORY",
                         !.ctxMem = "freed", !.ctxFrees = 1]
        ELSE IF e.busErr # "ESP_OK" THEN
            [freed EXCEPT !.stage = "bus", !.status = BusInitStatus(e.busErr)]
        ELSE IF e.devErr # "ESP_OK" THEN
            [freed EXCEPT !.stage = "device",
                          !.status = AddDeviceStatus(e.devErr),
                          !.busTaken = TRUE]
        ELSE IF tmr.err # "ESP_OK" THEN
            [freed EXCEPT !.stage = "timer", !.status = TimerStatus(tmr.err),
                          !.busTaken = TRUE, !.devTaken = TRUE,
                          !.timer = tmr.timer]
        ELSE
            [base EXCEPT !.stage = "done", !.status = "HD108_LLD_OK",
                         !.ctxMem = "live", !.bufMem = "live",
                         !.busTaken = TRUE, !.devTaken = TRUE,
                         !.timer = "running", !.publish = TRUE]

\* hd108_lld_init up to the return of an error or, on success, up to the
\* start of the periodic timer (the timer task may run from then on)
hd108_lld_init(c, e) ==
    LET r == InitOutcome(c, e) IN
    /\ inits' = inits + 1
    /\ cfg' = c
    /\ checked' = CheckConfig(c)
    /\ initStage' = r.stage
    /\ ctxMem' = r.ctxMem /\ ctxFrees' = r.ctxFrees
    /\ bufMem' = r.bufMem /\ bufFrees' = r.bufFrees
    /\ bufSize' = IF r.bufMem = "none" THEN 0 ELSE BufferLen(c.count)
    /\ bus' = IF r.busTaken THEN [bus EXCEPT ![c.spi_host] = "driver"] ELSE bus
    /\ devAttached' = IF r.devTaken THEN devAttached \cup {c.spi_host}
                      ELSE devAttached
    /\ timerState' = IF r.timer = "none" THEN timerState ELSE r.timer
    /\ timerPeriod' = IF r.timer = "running"
                      THEN hd108_get_update_period_time(c.frequency_hz)
                      ELSE timerPeriod
    /\ IF r.publish
       THEN /\ initPc' = "armed"
            /\ initStatus' = "NONE"
            /\ ctx' = [strip_length |-> c.count,
                       callback |-> c.update_function,
                       tx_length |-> 8 * BufferLen(c.count),
                       device_handle |-> c.spi_host]
            /\ frameBuffer' = ZeroBuffer(BufferLen(c.count))
       ELSE /\ initPc' = "idle"
            /\ initStatus' = r.status
            /\ ctx' = NoCtx
            /\ frameBuffer' = <<>>
    /\ UNCHANGED <<ctxOut, tickVars, appVars>>

\* the application calls hd108_lld_init, as long as no strip is running
InitCall ==
    /\ initPc = "idle"
    /\ inits < MaxInits
    /\ timerState # "running"
    /\ \E c \in ConfigInputs : \E e \in InitEnv(c) : hd108_lld_init(c, e)

\* *ctx_out = ctx; return HD108_LLD_OK;
InitPublish ==
    /\ initPc = "armed"
    /\ initPc' = "idle"
    /\ ctxOut' = "ctx"
    /\ initStatus' = "HD108_LLD_OK"
    /\ UNCHANGED <<cfg, checked, initStage, inits, ctxMem, ctxFrees, bufMem,
                   bufSize, bufFrees, bus, devAttached, timerState, timerPeriod, ctx,
                   frameBuffer, tickVars, appVars>>

(***************************************************************************)
(* hd108_lld_set_pixel                                                     *)
(***************************************************************************)
\* The application is about to call hd108_lld_set_pixel(ctx, i, &pixel)
\* with the descriptor p.  The contract of the driver has the application
\* do so from inside the update callback, with the handle init gave it.
AppCallSetPixel(i, p) ==
    /\ timerPc = "callback"
    /\ ctxOut = "ctx"
    /\ spPc # "calling"
    /\ spPc' = "calling"
    /\ spIndex' = i
    /\ pixel' = p
    /\ UNCHANGED <<spStatus, initVars, frameBuffer, tickVars>>

\* a set_pixel whose index check accepts index == strip_length
set_pixel_off_by_one(index, p) ==
    IF index > ctx.strip_length
    THEN [status |-> "HD108_LLD_ERROR_INDEX", pixel |-> p,
          buffer |-> frameBuffer]
    ELSE [status |-> "HD108_LLD_OK", pixel |-> SetStartBit(p),
          buffer |-> WriteBytes(frameBuffer, SlotOffset(index),
                        hd108_lld_copy_pixel(PixelRaw(SetStartBit(p))))]

\* a set_pixel that sets the start bit before it checks the index
set_pixel_bit_first(index, p) ==
    IF index >= ctx.strip_length
    THEN [status |-> "HD108_LLD_ERROR_INDEX", pixel |-> SetStartBit(p),
          buffer |-> frameBuffer]
    ELSE [status |-> "HD108_LLD_OK", pixel |-> SetStartBit(p),
          buffer |-> WriteBytes(frameBuffer, SlotOffset(index),
                        hd108_lld_copy_pixel(PixelRaw(SetStartBit(p))))]

\* the body of hd108_lld_set_pixel: its status, the caller's descriptor and
\* the frame buffer when it returns
set_pixel(index, p) ==
    IF index >= ctx.strip_length
    THEN [status |-> "HD108_LLD_ERROR_INDEX", pixel |-> p,
          buffer |-> frameBuffer]
    ELSE [status |-> "HD108_LLD_OK", pixel |-> SetStartBit(p),
          buffer |-> WriteBytes(frameBuffer, SlotOffset(index),
                        hd108_lld_copy_pixel(PixelRaw(SetStartBit(p))))]

hd108_lld_set_pixel ==
    LET r == set_pixel(spIndex, pixel) IN
    /\ spPc = "calling"
    /\ spPc' = "returned"
    /\ spStatus' = r.status
    /\ pixel' = r.pixel
    /\ frameBuffer' = r.buffer
    /\ UNCHANGED <<spIndex, initVars, tickVars>>

(***************************************************************************)
(* The periodic timer and hd108_lld_periodic_timer_callback                *)
(***************************************************************************)
\* the periodic timer expires
TimerExpire ==
    /\ timerState = "running"
    /\ expiries < MaxExpiries
    /\ expiries' = expiries + 1
    /\ lag' = lag + 1
    /\ UNCHANGED <<timerPc, handlerRuns, skipped, inFlight, resultReady,
                   dmaStart, lastSent, cbStartBuf, cbEndBuf, initVars,
                   frameBuffer, appVars>>

\* a timer that delivers every expiry (skip_unhandled_events = false)
DispatchNoSkip(n) == [lag |-> n - 1, skipped |-> 0]

\* The esp_timer task finds n >= 1 expiries of the timer not dispatched.
\* The timer was created with skip_unhandled_events = true, for which
\* esp_timer computes skipped = (now - alarm) / period = n - 1 and, when
\* skipped > 1, re-arms the timer at now + period: all the missed expiries
\* are dropped and the callback runs once.  Otherwise the timer is re-armed
\* one period after the alarm that is dispatched.
Dispatch(n) ==
    IF n - 1 > 1 THEN [lag |-> 0, skipped |-> n - 1]
    ELSE [lag |-> n - 1, skipped |-> 0]

\* The esp_timer task dispatches the timer and the callback executes
\* spi_device_queue_trans(..., portMAX_DELAY), whose status it ignores:
\* accepted says whether the bus took the transaction.
TickStart(accepted) ==
    LET d == Dispatch(lag) IN
    /\ timerState = "running"
    /\ timerPc = "idle"
    /\ lag >= 1
    /\ lag' = d.lag
    /\ skipped' = skipped + d.skipped
    /\ timerPc' = "wait"
    /\ inFlight' = accepted
    /\ dmaStart' = IF accepted THEN frameBuffer ELSE dmaStart
    /\ UNCHANGED <<expiries, handlerRuns, resultReady, lastSent, cbStartBuf,
                   cbEndBuf, initVars, frameBuffer, appVars>>

\* The bus finishes the transaction.  The DMA engine read the buffer
\* between the queueing and now: a buffer written meanwhile went out in
\* either version.
TransferDone ==
    /\ inFlight
    /\ inFlight' = FALSE
    /\ resultReady' = TRUE
    /\ lastSent' \in {dmaStart, frameBuffer}
    /\ UNCHANGED <<timerPc, lag, expiries, handlerRuns, skipped, dmaStart,
                   cbStartBuf, cbEndBuf, initVars, frameBuffer, appVars>>

\* a callback that does not wait for the result of the transaction
CanCallBackEarly == TRUE

\* spi_device_get_trans_result(..., portMAX_DELAY) returns only when a
\* finished transaction is in the result queue
CanCallBack == resultReady

\* spi_device_get_trans_result returns and ctx->callback() is invoked
TickCallback ==
    /\ timerPc = "wait"
    /\ CanCallBack
    /\ resultReady' = FALSE
    /\ timerPc' = "callback"
    /\ cbStartBuf' = frameBuffer
    /\ UNCHANGED <<lag, expiries, handlerRuns, skipped, inFlight, dmaStart,
                   lastSent, cbEndBuf, initVars, frameBuffer, appVars>>

\* The update callback returns and with it the timer callback.  The
\* descriptor and the status of the calls the callback made are locals of
\* the callback and end with it.
CallbackReturn ==
    /\ timerPc = "callback"
    /\ spPc # "calling"
    /\ timerPc' = "idle"
    /\ handlerRuns' = handlerRuns + 1
    /\ cbEndBuf' = frameBuffer
    /\ spPc' = "idle" /\ spIndex' = 0
    /\ pixel' = NoPixel
    /\ spStatus' = "NONE"
    /\ UNCHANGED <<lag, expiries, skipped, inFlight, resultReady, dmaStart,
                   lastSent, cbStartBuf, initVars, frameBuffer>>

(***************************************************************************)
(* Specifications                                                          *)
(***************************************************************************)
Next ==
    \/ InitCall
    \/ InitPublish
    \/ \E i \in IndexInputs, p \in PixelInputs : AppCallSetPixel(i, p)
    \/ hd108_lld_set_pixel
    \/ TimerExpire
    \/ \E accepted \in BOOLEAN : TickStart(accepted)
    \/ TransferDone
    \/ TickCallback
    \/ CallbackReturn

Spec == Init /\ [][Next]_vars

(***************************************************************************)
(* The configuration checks on their own, over every strip length          *)
(***************************************************************************)
\* hd108_lld_init has been called with some configuration
InitCfg ==
    /\ \E n \in CountInputsAll, f \in Frequencies, u \in BOOLEAN :
         \E s \in SpeedsAround(n, f) :
            cfg = [spi_host |-> "SPI2_HOST", spi_speed_hz |-> s, count |-> n,
                   frequency_hz |-> f, update_function |-> u]
    /\ checked = "NONE"
    /\ initPc = "idle"
    /\ initStage = "none"
    /\ initStatus = "NONE"
    /\ inits = 0
    /\ ctxOut = "NULL"
    /\ ctxMem = "none" /\ ctxFrees = 0
    /\ bufMem = "none" /\ bufSize = 0 /\ bufFrees = 0
    /\ bus = [h \in Hosts |-> "free"]
    /\ devAttached = {}
    /\ timerState = "none"
    /\ timerPeriod = 0
    /\ ctx = NoCtx
    /\ frameBuffer = <<>>
    /\ timerPc = "idle"
    /\ lag = 0 /\ expiries = 0 /\ handlerRuns = 0 /\ skipped = 0
    /\ inFlight = FALSE /\ resultReady = FALSE
    /\ dmaStart = <<>> /\ lastSent = <<>>
    /\ cbStartBuf = <<>> /\ cbEndBuf = <<>>
    /\ spPc = "idle" /\ spIndex = 0
    /\ pixel = NoPixel
    /\ spStatus = "NONE"

\* the four checks at the head of hd108_lld_init decide
ValidateConfig ==
    /\ checked = "NONE"
    /\ checked' = CheckConfig(cfg)
    /\ UNCHANGED <<cfg, initPc, initStage, initStatus, inits, ctxOut, ctxMem,
                   ctxFrees, bufMem, bufSize, bufFrees, bus, devAttached, timerState,
                   timerPeriod, ctx, frameBuffer, tickVars, appVars>>

\* esp_timer_start_periodic(timer, hd108_get_update_period_time(freq_hz))
\* for a configuration that passed the checks
StartPeriodic ==
    /\ checked = "PASS"
    /\ timerState = "none"
    /\ timerState' = "running"
    /\ timerPeriod' = hd108_get_update_period_time(cfg.frequency_hz)
    /\ UNCHANGED <<cfg, checked, initPc, initStage, initStatus, inits, ctxOut,
                   ctxMem, ctxFrees, bufMem, bufSize, bufFrees, bus, devAttached, ctx,
                   frameBuffer, tickVars, appVars>>

\* heap_caps_malloc(buffer_len, ...) and the four assignments to the
\* context for a configuration that passed the checks; the bytes of the
\* buffer are left out here, only its size is kept
PrepareTransaction ==
    /\ checked = "PASS"
    /\ bufMem = "none"
    /\ bufMem' = "live"
    /\ bufSize' = BufferLen(cfg.count)
    /\ ctx' = [strip_length |-> cfg.count,
               callback |-> cfg.update_function,
               tx_length |-> 8 * BufferLen(cfg.count),
               device_handle |-> "none"]
    /\ UNCHANGED <<cfg, checked, initPc, initStage, initStatus, inits, ctxOut,
                   ctxMem, ctxFrees, bufFrees, bus, devAttached, timerState,
                   timerPeriod, frameBuffer, tickVars, appVars>>

NextCfg == ValidateConfig \/ PrepareTransaction \/ StartPeriodic

SpecCfg == InitCfg /\ [][NextCfg]_vars

(***************************************************************************)
(* hd108_lld_set_pixel on its own, over many pixel values                  *)
(***************************************************************************)
\* The application, inside the update callback of the first tick of a
\* strip of n LEDs, is about to call hd108_lld_set_pixel.
InitPixel ==
    \E n \in 1..MaxStrip :
        /\ cfg = [spi_host |-> "SPI2_HOST",
                  spi_speed_hz |-> HD108_LLD_MAX_SPI_SPEED, count |-> n,
                  frequency_hz |-> 1, update_function |-> TRUE]
        /\ checked = "PASS"
        /\ initPc = "idle"
        /\ initStage = "done"
        /\ initStatus = "HD108_LLD_OK"
        /\ inits = 1
        /\ ctxOut = "ctx"
        /\ ctxMem = "live" /\ ctxFrees = 0
        /\ bufMem = "live" /\ bufSize = BufferLen(n) /\ bufFrees = 0
        /\ bus = [h \in Hosts |-> IF h = "SPI2_HOST" THEN "driver" ELSE "free"]
        /\ devAttached = {"SPI2_HOST"}
        /\ timerState = "running"
        /\ timerPeriod = hd108_get_update_period_time(1)
        /\ ctx = [strip_length |-> n, callback |-> TRUE,
                  tx_length |-> 8 * BufferLen(n), device_handle |-> "SPI2_HOST"]
        /\ frameBuffer = ZeroBuffer(BufferLen(n))
        /\ timerPc = "callback"
        /\ lag = 0 /\ expiries = 1 /\ handlerRuns = 0 /\ skipped = 0
        /\ inFlight = FALSE /\ resultReady = FALSE
        /\ dmaStart = ZeroBuffer(BufferLen(n))
        /\ lastSent = ZeroBuffer(BufferLen(n))
        /\ cbStartBuf = ZeroBuffer(BufferLen(n))
        /\ cbEndBuf = <<>>
        /\ spPc = "calling"
        /\ spIndex \in 0..n
        /\ pixel \in PixelInputsAll
        /\ spStatus = "NONE"

NextPixel == hd108_lld_set_pixel

SpecPixel == InitPixel /\ [][NextPixel]_vars

(***************************************************************************)
(* Properties                                                              *)
(***************************************************************************)
\* the mathematical data rate of a strip of n LEDs refreshed f times a second
RequiredRate(n, f) == (16 + 8 * n) * 8 * f * 2

\* the configuration is one the data-rate statement is about
RateCase ==
    /\ checked # "NONE"
    /\ cfg.count \in 1..1024
    /\ cfg.frequency_hz \in Frequencies
    /\ cfg.update_function

\* C1 as stated: for a length in [1,1024], an enumerated frequency and a
\* callback, the checks pass iff the required rate is at most the bus
\* speed, whatever the bus speed is.
C1_PassIffRate ==
    RateCase =>
        ((checked = "PASS") <=>
            (RequiredRate(cfg.count, cfg.frequency_hz) <= cfg.spi_speed_hz))

\* C1 amended: the checks pass iff the required rate is at most the bus
\* speed and the bus speed is at most 40 MHz.
C1_PassIffRateAndSpeed ==
    RateCase =>
        ((checked = "PASS") <=>
            /\ RequiredRate(cfg.count, cfg.frequency_hz) <= cfg.spi_speed_hz
            /\ cfg.spi_speed_hz <= 40000000)

\* the longest strip at the highest frequency passes at exactly its rate
C1_Witness ==
    /\ checked = "PASS"
    /\ cfg.count = 1024
    /\ cfg.frequency_hz = 120
    /\ cfg.spi_speed_hz = 15759360

\* a step in which hd108_lld_set_pixel executes
SetPixelStep == spPc = "calling" /\ spPc' = "returned"

\* C2: set_pixel with index >= strip_length returns the index error and
\* leaves the frame buffer as it was; with a smaller index it returns OK.
C2_IndexRange ==
    [][SetPixelStep =>
        IF spIndex >= ctx.strip_length
        THEN spStatus' = "HD108_LLD_ERROR_INDEX" /\ frameBuffer' = frameBuffer
        ELSE spStatus' = "HD108_LLD_OK"]_vars

\* set_pixel was refused at index == strip_length on a buffer that already
\* holds a pixel
C2_Witness ==
    /\ spPc = "returned"
    /\ spStatus = "HD108_LLD_ERROR_INDEX"
    /\ spIndex = ctx.strip_length
    /\ \E k \in 1..Len(frameBuffer) : frameBuffer[k] # 0

\* the 8 bytes of slot i of a buffer
Slot(buf, i) == [k \in 1..8 |-> buf[16 + 8 * i + k]]

\* the big endian bytes of a 16 bit word
BigEndian(w) == <<w \div 256, w % 256>>

\* the wire record of the pixel with the given six field values
WireRecord(cr, cg, cb, r, g, b) ==
    BigEndian(32768 + 1024 * cr + 32 * cg + cb) \o BigEndian(r)
        \o BigEndian(g) \o BigEndian(b)

\* C3: after a successful set_pixel of index i the slot at 16 + 8*i holds
\* the four words start|currents, red, green, blue of the descriptor that
\* was passed, most significant byte first.
C3_WireRecord ==
    [][(SetPixelStep /\ spStatus' = "HD108_LLD_OK") =>
        Slot(frameBuffer', spIndex) =
            WireRecord(pixel.cl_red, pixel.cl_green, pixel.cl_blue,
                       pixel.red, pixel.green, pixel.blue)]_vars

\* a pixel with distinct bytes in every word was written to slot 1
C3_Witness ==
    /\ spPc = "returned"
    /\ spStatus = "HD108_LLD_OK"
    /\ spIndex = 1
    /\ pixel.cl_red = 31 /\ pixel.cl_green = 0 /\ pixel.cl_blue = 3
    /\ pixel.red = 4660 /\ pixel.green = 22136 /\ pixel.blue = 39612
    /\ Slot(frameBuffer, 1) = <<252, 3, 18, 52, 86, 120, 154, 188>>

\* set_pixel has just written the pixel of the encoding example
ExamplePixelWritten ==
    /\ spPc = "returned"
    /\ spStatus = "HD108_LLD_OK"
    /\ pixel.cl_red = 3 /\ pixel.cl_green = 7 /\ pixel.cl_blue = 15
    /\ pixel.red = 4660 /\ pixel.green = 22136 /\ pixel.blue = 39612

\* C4 as stated: the example pixel gives a word0 of 0x8DEF and a slot that
\* holds the bytes EF 8D 34 12 78 56 BC 9A in buffer order.
C4_ExampleBytes ==
    ExamplePixelWritten =>
        /\ PixelWord0(pixel) = 36335
        /\ Slot(frameBuffer, spIndex) = <<239, 141, 52, 18, 120, 86, 188, 154>>

\* C4 amended: the example pixel gives a word0 of
\* 0x8000 | 3<<10 | 7<<5 | 15 = 0x8CEF and a slot that holds the four words
\* most significant byte first: 8C EF 12 34 56 78 9A BC.
C4_ExampleBytesBigEndian ==
    ExamplePixelWritten =>
        /\ PixelWord0(pixel) = 36079
        /\ Slot(frameBuffer, spIndex) = <<140, 239, 18, 52, 86, 120, 154, 188>>

\* the example pixel was written to slot 1 of a strip of two
C4_Witness ==
    /\ ExamplePixelWritten
    /\ spIndex = 1
    /\ ctx.strip_length = 2

\* C5: with set_pixel called only inside the update callback, the buffer a
\* callback finds when it starts is the frame its tick transmitted, that
\* frame is not altered by the writes of the callback, and the frame of
\* the next tick is the buffer as the previous callback left it.
C5_FrameOrder ==
    /\ (timerPc = "callback") => (lastSent = cbStartBuf)
    /\ (handlerRuns >= 1 /\ (resultReady \/ timerPc = "callback"))
          => (lastSent = cbEndBuf)

\* a later tick transmitted a pixel written by an earlier callback, and its
\* own callback has written another pixel since
C5_Witness ==
    /\ handlerRuns >= 1
    /\ timerPc = "callback"
    /\ lastSent = cbEndBuf
    /\ \E k \in 1..Len(lastSent) : lastSent[k] # 0
    /\ frameBuffer # lastSent

\* C6 as stated: every expiry gets its own execution of the tick handler,
\* so when the timer task is idle with nothing pending, the handler has
\* run as often as the timer expired.
C6_NoTickSkipped ==
    (timerPc = "idle" /\ lag = 0) => (handlerRuns = expiries)

\* executions of the tick handler started so far
HandlerStarts == handlerRuns + (IF timerPc = "idle" THEN 0 ELSE 1)

\* a step in which the timer task dispatches the timer
DispatchStep == timerPc = "idle" /\ timerPc' = "wait"

\* C6 amended: every expiry is either handled by its own execution, pending
\* or skipped; a dispatch that finds three or more expiries pending (more
\* than one whole period missed) runs the handler once and skips the rest,
\* a dispatch that finds one or two handles one of them and skips none.
C6_SkipsWhenLate ==
    /\ [](HandlerStarts + lag + skipped = expiries)
    /\ [][DispatchStep =>
            IF lag >= 3
            THEN lag' = 0 /\ skipped' = skipped + lag - 1
            ELSE lag' = lag - 1 /\ skipped' = skipped]_vars

\* the handler ran once for three expiries
C6_Witness ==
    /\ timerPc = "idle"
    /\ lag = 0
    /\ expiries = 3
    /\ handlerRuns = 1
    /\ skipped = 2

\* C7: when init fails at the bus initialization, the device attachment or
\* the timer, the context and the buffer it allocated have each been freed
\* exactly once and *ctx_out has not been written.
C7_RollbackOfMemory ==
    (initPc = "idle" /\ initStage \in {"bus", "device", "timer"}) =>
        /\ initStatus \notin {"NONE", "HD108_LLD_OK"}
        /\ ctxMem = "freed" /\ ctxFrees = 1
        /\ bufMem = "freed" /\ bufFrees = 1
        /\ ctxOut = "NULL"

\* init failed because the created timer could not be started
C7_Witness ==
    /\ initPc = "idle"
    /\ initStage = "timer"
    /\ timerState = "deleted"
    /\ ctxMem = "freed" /\ bufMem = "freed"

\* C8: after an init that returned an error nothing it acquired is still
\* held: no live context or buffer, no SPI host initialized by the driver,
\* no device attached, no timer running.
C8_AllOrNothing ==
    (initPc = "idle" /\ initStatus \notin {"NONE", "HD108_LLD_OK"}) =>
        /\ ctxMem # "live" /\ bufMem # "live"
        /\ \A h \in Hosts : bus[h] # "driver"
        /\ devAttached = {}
        /\ timerState # "running"

\* a step in which hd108_lld_init is called
InitStep == inits' # inits

\* C9: a strip length outside [1,1024] is answered with the length error,
\* and a call whose configuration checks reject returns their status with
\* nothing allocated, no bus initialized, no device attached, no timer
\* created and *ctx_out as it was.
C9_ChecksBeforeResources ==
    [][InitStep =>
        /\ (cfg'.count < 1 \/ cfg'.count > 1024)
              => initStatus' = "HD108_LLD_ERROR_LENGTH"
        /\ (checked' # "PASS") =>
              /\ initStatus' = checked'
              /\ initStage' = "config"
              /\ ctxMem' = "none" /\ bufMem' = "none"
              /\ bus' = bus
              /\ devAttached' = devAttached
              /\ timerState' = timerState
              /\ ctxOut' = ctxOut]_vars

\* a strip of 1025 LEDs was refused
C9_Witness ==
    /\ inits >= 1
    /\ cfg.count = 1025
    /\ cfg.update_function
    /\ initStatus = "HD108_LLD_ERROR_LENGTH"
    /\ ctxMem = "none" /\ bufMem = "none"

\* the last call of init has returned and its configuration had no callback
NullCallbackCase == inits >= 1 /\ initPc = "idle" /\ ~cfg.update_function

\* C10 as stated: init with a null callback returns the invalid error for
\* every value of the other fields, and allocates nothing.
C10_NullCallbackInvalid ==
    NullCallbackCase =>
        /\ initStatus = "HD108_LLD_ERROR_INVALID"
        /\ ctxMem = "none" /\ bufMem = "none"
        /\ ctxOut = "NULL"

\* C10 amended: init with a null callback returns the invalid error when
\* the strip length is in [1,1024] and the length error otherwise, and
\* allocates nothing.
C10_NullCallbackRejected ==
    NullCallbackCase =>
        /\ initStatus = IF cfg.count \in 1..1024
                        THEN "HD108_LLD_ERROR_INVALID"
                        ELSE "HD108_LLD_ERROR_LENGTH"
        /\ initStage = "config"
        /\ ctxMem = "none" /\ bufMem = "none"
        /\ ctxOut = "NULL"

\* a configuration that only lacks the callback was refused
C10_Witness ==
    /\ NullCallbackCase
    /\ cfg.count = 1
    /\ cfg.spi_speed_hz = 400
    /\ cfg.frequency_hz = 1
    /\ initStatus = "HD108_LLD_ERROR_INVALID"

\* C11: the first failing check decides: a length outside [1,1024] gives
\* the length error whatever the other fields are; otherwise a speed above
\* 40 MHz gives the invalid error; otherwise a null callback gives the
\* invalid error; otherwise a required rate above the speed gives the data
\* rate error; otherwise the checks pass.
C11_FirstFailingCheck ==
    (checked # "NONE") =>
        checked =
            CASE cfg.count < 1 \/ cfg.count > 1024 -> "HD108_LLD_ERROR_LENGTH"
              [] cfg.count \in 1..1024 /\ cfg.spi_speed_hz > 40000000
                    -> "HD108_LLD_ERROR_INVALID"
              [] cfg.count \in 1..1024 /\ cfg.spi_speed_hz <= 40000000
                    /\ ~cfg.update_function
                    -> "HD108_LLD_ERROR_INVALID"
              [] cfg.count \in 1..1024 /\ cfg.spi_speed_hz <= 40000000
                    /\ cfg.update_function
                    /\ RequiredRate(cfg.count, cfg.frequency_hz)
                          > cfg.spi_speed_hz
                    -> "HD108_LLD_ERROR_DATA_RATE"
              [] OTHER -> "PASS"

\* a configuration that fails every check was answered with the length
\* error
C11_Witness ==
    /\ checked = "HD108_LLD_ERROR_LENGTH"
    /\ cfg.count = 0
    /\ cfg.spi_speed_hz = 40000001
    /\ ~cfg.update_function

\* C12: after a successful init the first 16 bytes of the frame buffer are
\* zero in every reachable state, whatever set_pixel calls and ticks
\* happened.
C12_PaddingStaysZero ==
    (initStage = "done") =>
        /\ Len(frameBuffer) >= 16
        /\ \A k \in 1..16 : frameBuffer[k] = 0

\* pixel 0 has been written, a tick has run to its end, and a later
\* set_pixel was refused for its index
C12_Witness ==
    /\ initStage = "done"
    /\ frameBuffer[17] # 0
    /\ handlerRuns >= 1
    /\ spPc = "returned"
    /\ spStatus = "HD108_LLD_ERROR_INDEX"

\* the bytes of a buffer outside slot i are the same in a and b
SameOutsideSlot(a, b, i) ==
    /\ Len(a) = Len(b)
    /\ \A k \in 1..Len(a) :
          (k - 1 < 16 + 8 * i \/ k - 1 > 16 + 8 * i + 7) => a[k] = b[k]

\* C13: a successful set_pixel of index i changes only the bytes at
\* offsets 16 + 8*i .. 16 + 8*i + 7, which lie inside the buffer of
\* 16 + 8*strip_length bytes; the other bytes and the context are
\* unchanged, and no step other than set_pixel and init changes the buffer.
C13_WriteConfined ==
    [][/\ (SetPixelStep /\ spStatus' = "HD108_LLD_OK") =>
            /\ Len(frameBuffer) = 16 + 8 * ctx.strip_length
            /\ 16 + 8 * spIndex + 7 < Len(frameBuffer)
            /\ SameOutsideSlot(frameBuffer, frameBuffer', spIndex)
            /\ ctx' = ctx
       /\ (~SetPixelStep /\ ~InitStep) =>
            (frameBuffer' = frameBuffer /\ ctx' = ctx)]_vars

\* slot 1 was written while slot 0 holds another pixel
C13_Witness ==
    /\ spPc = "returned"
    /\ spStatus = "HD108_LLD_OK"
    /\ spIndex = 1
    /\ ctx.strip_length = 2
    /\ Slot(frameBuffer, 0) # Slot(frameBuffer, 1)
    /\ frameBuffer[17] >= 128
    /\ frameBuffer[25] >= 128

\* C14: every frame a tick submits to the bus is 16 zero bytes followed by
\* strip_length records of 8 bytes, and in every record the start bit (the
\* top bit of the first byte on the wire) is 1, also in a frame submitted
\* before the application wrote that pixel.
C14_FramesWellFormed ==
    (dmaStart # <<>>) =>
        /\ Len(dmaStart) = 16 + 8 * ctx.strip_length
        /\ \A k \in 1..16 : dmaStart[k] = 0
        /\ \A i \in 0..(ctx.strip_length - 1) : dmaStart[16 + 8 * i + 1] >= 128

\* C15: with set_pixel called only from the update callback, no write to
\* the frame buffer happens while a transfer of it is in flight: the
\* transfer of a tick is complete when the callback of that tick starts,
\* and no transfer starts before the callback has returned.
C15_NoWriteDuringTransfer ==
    [][/\ (frameBuffer' # frameBuffer /\ ~InitStep) =>
             (~inFlight /\ ~inFlight')
       /\ (timerPc' = "callback") => ~inFlight'
       /\ (~inFlight /\ inFlight') => timerPc = "idle"]_vars

\* in the callback of the second tick a pixel was written after two
\* transfers of the buffer completed
C15_Witness ==
    /\ timerPc = "callback"
    /\ handlerRuns = 1
    /\ spPc = "returned"
    /\ spStatus = "HD108_LLD_OK"
    /\ lastSent # <<>>
    /\ lastSent # frameBuffer
    /\ ~inFlight

\* C16 as stated: the period is 1,000,000 / frequency_hz and every
\* frequency of the enumeration divides 1,000,000, so that
\* period * frequency_hz = 1,000,000 for each of them.
C16_PeriodExact ==
    (timerState = "running") =>
        /\ timerPeriod = 1000000 \div cfg.frequency_hz
        /\ timerPeriod * cfg.frequency_hz = 1000000

\* C16: the period is the integer quotient 1,000,000 / frequency_hz; it is
\* exact for 1, 2, 5, 10, 20, 25, 50 and 100 Hz and truncated for 24, 30,
\* 60 and 120 Hz (41666, 33333, 16666 and 8333 us), where period *
\* frequency_hz falls short of 1,000,000 by less than frequency_hz.
C16_PeriodTruncated ==
    (timerState = "running") =>
        /\ timerPeriod * cfg.frequency_hz <= 1000000
        /\ 1000000 < (timerPeriod + 1) * cfg.frequency_hz
        /\ (cfg.frequency_hz \in {1, 2, 5, 10, 20, 25, 50, 100})
              => timerPeriod * cfg.frequency_hz = 1000000
        /\ (cfg.frequency_hz = 24) => timerPeriod = 41666
        /\ (cfg.frequency_hz = 30) => timerPeriod = 33333
        /\ (cfg.frequency_hz = 60) => timerPeriod = 16666
        /\ (cfg.frequency_hz = 120) => timerPeriod = 8333

\* a 24 Hz timer was started with a period of 41666 us
C16_Witness ==
    /\ timerState = "running"
    /\ cfg.frequency_hz = 24
    /\ timerPeriod = 41666
    /\ timerPeriod * 24 = 999984

\* C17: hd108_lld_init returns HD108_LLD_ERROR_SPI_IN_USE exactly when the
\* selected SPI host is already in use, which the bus initialization
\* reports; the failure of no other step gives that status.
C17_SpiInUseIffHostBusy ==
    (initPc = "idle" /\ inits > 0) =>
        ((initStatus = "HD108_LLD_ERROR_SPI_IN_USE")
            <=> (initStage = "bus" /\ bus[cfg.spi_host] # "free"))

\* the three current levels and the three colours of a descriptor
LogicalFields(p) ==
    <<p.cl_red, p.cl_green, p.cl_blue, p.red, p.green, p.blue>>

C19_NoTickBeforePublish ==
    (timerPc # "idle" \/ handlerRuns > 0) =>
        /\ initStage = "done"
        /\ ctxOut = "ctx"
        /\ initStatus = "HD108_LLD_OK"

\* C20: every execution of the tick handler reaches the update callback and
\* returns, given that the bus completes every transfer it accepts, also
\* when the bus rejects the submission: a handler that waits for a result
\* always has a transfer in flight or a finished one to collect.
C20_WaitIsServed ==
    (timerPc = "wait") => (inFlight \/ resultReady)

\* C21: for every strip length in 1..1024 and every enumerated frequency
\* the values computed by init do not wrap: buffer_len is 16 + 8*count and
\* at most 8208, the rate is (16 + 8*count) * 8 * frequency_hz * 2 and at
\* most 15,759,360, so the data rate check decides on the exact values, and
\* the allocated size and the transfer length are 16 + 8*count bytes.
C21_NoWrap ==
    (cfg.count \in 1..1024) =>
        /\ BufferLen(cfg.count) = 16 + 8 * cfg.count
        /\ BufferLen(cfg.count) <= 8208
        /\ DataRate(cfg.count, cfg.frequency_hz)
              = (16 + 8 * cfg.count) * 8 * cfg.frequency_hz * 2
        /\ DataRate(cfg.count, cfg.frequency_hz) <= 15759360
        /\ (checked # "NONE" /\ cfg.spi_speed_hz <= 40000000
                /\ cfg.update_function) =>
              ((checked = "HD108_LLD_ERROR_DATA_RATE")
                  <=> ((16 + 8 * cfg.count) * 8 * cfg.frequency_hz * 2
                          > cfg.spi_speed_hz))
        /\ (bufMem = "live") =>
              /\ bufSize = 16 + 8 * cfg.count
              /\ ctx.tx_length = 8 * (16 + 8 * cfg.count)

\* the longest strip at the highest frequency, at a speed equal to its
\* rate, passed the checks and got a buffer of 8208 bytes
C21_Witness ==
    /\ cfg.count = 1024
    /\ cfg.frequency_hz = 120
    /\ cfg.spi_speed_hz = 15759360
    /\ checked = "PASS"
    /\ bufMem = "live"
    /\ bufSize = 8208
    /\ ctx.tx_length = 65664

====
